---- MODULE Spec2Model ----
(***************************************************************************)
(* A model of go-openapi/validate: the Result accumulator, the composition *)
(* validator (allOf / anyOf / oneOf / not) and the stages of the document  *)
(* validator.                                                              *)
(*                                                                         *)
(* Three specifications share the variables of this module:                *)
(*   SpecResult  sequences of calls on two Result values;                  *)
(*   Spec        one run of schemaPropsValidator.Validate on a schema tree;*)
(*   SpecDoc     one run of SpecValidator.Validate, stage by stage.        *)
(***************************************************************************)
EXTENDS Integers, Sequences, FiniteSets, TLC

VARIABLES
    r,          \* SpecResult: the two Result values, r[1] and r[2]
    last,       \* SpecResult: the last call made (operation, receiver, arguments)
    schema,     \* Spec: the schema node being validated
    pc,         \* Spec: "ready" before Validate, "done" after it returned
    result,     \* Spec: the Result returned by schemaPropsValidator.Validate
    calls,      \* Spec: the branches each combinator evaluated, in order
    doc,        \* SpecDoc: the document (what each stage finds in it)
    opts,       \* SpecDoc: the validator's options
    stage,      \* SpecDoc: position of Validate in its sequence of stages
    errs,       \* SpecDoc: the first Result of Validate
    warnings,   \* SpecDoc: the second Result of Validate
    ran,        \* SpecDoc: the stages that have run, in order
    definitions,\* SpecWalk: the named definitions of the document
    walk,       \* SpecWalk: the state of validateDuplicatePropertyNames
    data,       \* SpecDeps: the value handed to Validate
    dependencies, \* SpecDeps: the Dependencies of the schema, by key
    runs,       \* SpecDeps: the outcomes of the Validate calls made so far
    pools,      \* SpecPool: the pooled objects, redeemed or not, and their fields
    inflight,   \* SpecPool: the validation calls, each with what it borrowed
    swagger,    \* SpecOps: the Paths object of the document and its operations
    report,     \* SpecOps: the Result of each check of the operations, once run
    defaults,   \* SpecDefaults: the default values the document declares
    defaultsRes, \* SpecDefaults: the Result of the default validator, once run
    specValidators \* SpecFlag: the validators of the process and their option

vars == <<r, last, schema, pc, result, calls, doc, opts, stage, errs, warnings, ran,
          definitions, walk, data, dependencies, runs, pools, inflight,
          swagger, report, defaults, defaultsRes, specValidators>>

resultVars == <<r, last>>
propsVars == <<schema, pc, result, calls>>
docVars == <<doc, opts, stage, errs, warnings, ran>>
walkVars == <<definitions, walk>>
\* the variables of the other specifications
depsVars == <<data, dependencies, runs>>
poolVars == <<pools, inflight>>
opsVars == <<swagger, report>>
defaultsVars == <<defaults, defaultsRes>>
lateVars == <<opsVars, defaultsVars, specValidators>>
moreVars == <<walkVars, depsVars, poolVars, lateVars>>

----------------------------------------------------------------------------
(* Bounds *)

\* longest argument list of one AddErrors / AddWarnings call
MaxArgs == 2
\* cap on the match count of a Result in SpecResult
MaxMatch == 2
\* number of schema nodes in a schema tree, the root included
MaxNodes == 3
\* SpecWalk: the number of named definitions
MaxDefs == 3
\* SpecWalk: the number of $refs, properties and allOf members declared
MaxEdges == 4
\* SpecDeps: the number of object keys
MaxKeys == 3
\* SpecDeps: the number of Validate calls on one (schema, value) pair
MaxRuns == 2
\* SpecPool: the number of validation calls that run concurrently
MaxCalls == 2
\* SpecPool: the number of objects of each kind that can be allocated
MaxObjects == 4
MaxOps == 3
MaxDefaults == 3

----------------------------------------------------------------------------
(* Messages *)

\* An error message: its text and the number formatted into it (0 if none).
\* Two errors are the same report when their Error() strings are equal.
Msg(text, n) == [text |-> text, n |-> n]

\* the messages of primitive validators and of callers of the Result API
LeafMsgs == {Msg("one error", 0), Msg("another error", 0)}

AnyOfMsg == Msg("must validate at least one schema (anyOf)", 0)

\* the oneOf message that never counts the valid alternatives
OneOfMsgNone(validated) ==
    Msg("must validate one and only one schema (oneOf). Found none valid", 0)

OneOfMsg(validated) ==
    IF validated = 0
    THEN Msg("must validate one and only one schema (oneOf). Found none valid", 0)
    ELSE Msg("must validate one and only one schema (oneOf). Found %d valid alternatives", validated)

AllOfMsg(validated) ==
    IF validated = 0
    THEN Msg("must validate all the schemas (allOf). None validated", 0)
    ELSE Msg("must validate all the schemas (allOf)", 0)

NotMsg == Msg("must not validate the schema (not)", 0)

----------------------------------------------------------------------------
(* Sequence helpers *)

Range(s) == {s[i] : i \in 1..Len(s)}

NoDup(s) == \A i, j \in 1..Len(s) : s[i] = s[j] => i = j

Count(s, m) == Cardinality({i \in 1..Len(s) : s[i] = m})

SeqsUpTo(S, n) == UNION {[1..k -> S] : k \in 0..n}

----------------------------------------------------------------------------
(* Result *)

NewResult == [Errors |-> <<>>, Warnings |-> <<>>, MatchCount |-> 0, Defaulters |-> <<>>]

\* the inner loop of AddErrors: e.Error() == isReported.Error() for some reported error
IsReported(reported, e) == \E i \in 1..Len(reported) : reported[i] = e

\* AddErrorsLoop with the duplicate check left out
AddErrorsLoopNoCheck(reported, errors, found) == reported \o errors

\* The outer loop of AddErrors. found is declared once, before the loop, and is
\* never reset: it stays true for the rest of the call once one error of the
\* call was found already reported.
RECURSIVE AddErrorsLoop(_, _, _)
AddErrorsLoop(reported, errors, found) ==
    IF errors = <<>>
    THEN reported
    ELSE LET e == Head(errors)
             found2 == found \/ IsReported(reported, e)
         IN AddErrorsLoop(IF found2 THEN reported ELSE Append(reported, e),
                          Tail(errors), found2)

AddErrors(res, errors) == [res EXCEPT !.Errors = AddErrorsLoop(@, errors, FALSE)]

\* Warnings are kept like errors, in their own bucket, without duplicates.
RECURSIVE AddWarningsLoop(_, _)
AddWarningsLoop(reported, ws) ==
    IF ws = <<>>
    THEN reported
    ELSE AddWarningsLoop(IF IsReported(reported, Head(ws)) THEN reported
                         ELSE Append(reported, Head(ws)), Tail(ws))

AddWarnings(res, ws) == [res EXCEPT !.Warnings = AddWarningsLoop(@, ws)]

\* The warnings of the other Result join those of the receiver, as its errors do.
MergeWarnings(res, other) == AddWarnings(res, other.Warnings)

\* Merge of a nil Result returns the receiver; a nil Result is <<>> here and a
\* Result other is <<other>>.
Merge(res, other) ==
    IF other = <<>>
    THEN res
    ELSE [MergeWarnings(AddErrors(res, other[1].Errors), other[1])
            EXCEPT !.MatchCount = @ + other[1].MatchCount,
                   !.Defaulters = @ \o other[1].Defaulters]

\* Merge errors and warnings of the other Result as warnings of the receiver.
MergeAsWarnings(res, other) ==
    IF other = <<>>
    THEN res
    ELSE [AddWarnings(AddWarnings(res, other[1].Errors), other[1].Warnings)
            EXCEPT !.MatchCount = @ + other[1].MatchCount]

\* IsValid that counts warnings as failures
IsValidNoWarnings(res) == Len(res.Errors) = 0 /\ Len(res.Warnings) = 0

IsValid(res) == Len(res.Errors) = 0

HasErrors(res) == ~IsValid(res)

\* Inc that leaves the match count alone
IncNothing(res) == res

\* Inc that counts valid Results only
IncIfValid(res) == IF Len(res.Errors) = 0 THEN [res EXCEPT !.MatchCount = @ + 1] ELSE res

Inc(res) == [res EXCEPT !.MatchCount = @ + 1]

----------------------------------------------------------------------------
(* Schema trees *)

\* What the primitive validators of one schema node (type, format, string,
\* number, slice, common, object) report for the value under validation:
\* their merged errors and the match count they add up.
PrimErrors == {<<>>, <<Msg("one error", 0)>>,
               <<Msg("one error", 0), Msg("another error", 0)>>}

PrimMatches == {1, 2}

Prims == {[Errors |-> es, MatchCount |-> m] : es \in PrimErrors, m \in PrimMatches}

PassPrim == [Errors |-> <<>>, MatchCount |-> 1]

Kinds == {"allOf", "anyOf", "oneOf", "not"}

\* A schema node: the outcome of its primitive validators and its composition
\* branches. not holds at most one schema. Nodes carry no dependencies.
Leaf(prim) == [prim |-> prim, allOf |-> <<>>, anyOf |-> <<>>, oneOf |-> <<>>, not |-> <<>>]

Branches(node, kind) ==
    CASE kind = "allOf" -> node.allOf
      [] kind = "anyOf" -> node.anyOf
      [] kind = "oneOf" -> node.oneOf
      [] kind = "not"   -> node.not

WithBranches(node, kind, bs) ==
    CASE kind = "allOf" -> [node EXCEPT !.allOf = bs]
      [] kind = "anyOf" -> [node EXCEPT !.anyOf = bs]
      [] kind = "oneOf" -> [node EXCEPT !.oneOf = bs]
      [] kind = "not"   -> [node EXCEPT !.not = bs]

RECURSIVE Size(_), SizeAll(_)
Size(node) == 1 + SizeAll(node.allOf) + SizeAll(node.anyOf)
                + SizeAll(node.oneOf) + SizeAll(node.not)
SizeAll(nodes) == IF nodes = <<>> THEN 0 ELSE Size(Head(nodes)) + SizeAll(Tail(nodes))

\* The schemas obtained from node by declaring one more branch, somewhere in
\* the tree: a schema without branches of its own, appended to a combinator.
RECURSIVE Extensions(_)
Extensions(node) ==
    {WithBranches(node, kind, Append(Branches(node, kind), Leaf(p))) :
        kind \in {k \in Kinds : k = "not" => node.not = <<>>}, p \in Prims}
    \cup UNION {UNION {{WithBranches(node, kind, [Branches(node, kind) EXCEPT ![i] = e]) :
                          e \in Extensions(Branches(node, kind)[i])} :
                       i \in 1..Len(Branches(node, kind))} : kind \in Kinds}

----------------------------------------------------------------------------
(* schemaPropsValidator.Validate *)

RECURSIVE SchemaValidate(_), PropsValidate(_), AnyOfLoop(_, _, _), OneOfLoop(_, _, _),
          AllOfLoop(_, _, _), AnyOfLoopNoBreak(_, _, _)

\* The anyOf loop over s.anyOfValidators from index i on. st holds the loop's
\* variables: bestFailures and firstSuccess (<<>> is nil), succeededOnce, and
\* the indexes of the branches whose Validate was called.
AnyOfStart == [bestFailures |-> <<>>, firstSuccess |-> <<>>, succeededOnce |-> FALSE,
               evaluated |-> <<>>]

\* AnyOfLoop going on to the next branch after a success
AnyOfLoopNoBreak(validators, i, st) ==
    IF i > Len(validators)
    THEN st
    ELSE LET res == SchemaValidate(validators[i])
             st1 == [st EXCEPT !.evaluated = Append(@, i)]
         IN IF IsValid(res)
            THEN AnyOfLoopNoBreak(validators, i + 1,
                    [st1 EXCEPT !.bestFailures = <<>>,
                                !.succeededOnce = TRUE,
                                !.firstSuccess = IF @ = <<>> THEN <<res>> ELSE @])
            ELSE AnyOfLoopNoBreak(validators, i + 1,
                    [st1 EXCEPT !.bestFailures =
                        IF @ = <<>> \/ res.MatchCount > @[1].MatchCount
                        THEN <<res>> ELSE @])

AnyOfLoop(validators, i, st) ==
    IF i > Len(validators)
    THEN st
    ELSE LET res == SchemaValidate(validators[i])
             st1 == [st EXCEPT !.evaluated = Append(@, i)]
         IN IF IsValid(res)
            THEN \* break
                 [st1 EXCEPT !.bestFailures = <<>>,
                             !.succeededOnce = TRUE,
                             !.firstSuccess = IF @ = <<>> THEN <<res>> ELSE @]
            ELSE AnyOfLoop(validators, i + 1,
                    [st1 EXCEPT !.bestFailures =
                        IF @ = <<>> \/ res.MatchCount > @[1].MatchCount
                        THEN <<res>> ELSE @])

\* the anyOf block: mainResult after it
AnyOfMerge(mainResult, st) ==
    LET m1 == IF ~st.succeededOnce THEN AddErrors(mainResult, <<AnyOfMsg>>) ELSE mainResult
    IN IF st.bestFailures # <<>> THEN Merge(m1, st.bestFailures)
       ELSE IF st.firstSuccess # <<>> THEN Merge(m1, st.firstSuccess)
       ELSE m1

\* The oneOf loop: every branch is validated (continue, no break).
OneOfStart == [bestFailures |-> <<>>, firstSuccess |-> <<>>, validated |-> 0,
               evaluated |-> <<>>]

OneOfLoop(validators, i, st) ==
    IF i > Len(validators)
    THEN st
    ELSE LET res == SchemaValidate(validators[i])
             st1 == [st EXCEPT !.evaluated = Append(@, i)]
         IN IF IsValid(res)
            THEN OneOfLoop(validators, i + 1,
                    [st1 EXCEPT !.validated = @ + 1,
                                !.bestFailures = <<>>,
                                !.firstSuccess = IF @ = <<>> THEN <<res>> ELSE @])
            ELSE OneOfLoop(validators, i + 1,
                    [st1 EXCEPT !.bestFailures =
                        IF st.validated = 0
                           /\ (@ = <<>> \/ res.MatchCount > @[1].MatchCount)
                        THEN <<res>> ELSE @])

\* oneOf rejects the value unless exactly one branch validated
OneOfRejectsNone(validated) == validated = 0

OneOfRejects(validated) == validated # 1

\* the oneOf block: mainResult after it
OneOfMerge(mainResult, st) ==
    IF OneOfRejects(st.validated)
    THEN LET m1 == AddErrors(mainResult, <<OneOfMsg(st.validated)>>)
         IN IF st.bestFailures # <<>> THEN Merge(m1, st.bestFailures) ELSE m1
    ELSE IF st.firstSuccess # <<>> THEN Merge(mainResult, st.firstSuccess)
    ELSE mainResult

\* The allOf loop: every branch is validated and merged into mainResult.
AllOfLoop(validators, i, st) ==
    IF i > Len(validators)
    THEN st
    ELSE LET res == SchemaValidate(validators[i])
         IN AllOfLoop(validators, i + 1,
                [st EXCEPT !.evaluated = Append(@, i),
                           !.validated = IF IsValid(res) THEN @ + 1 ELSE @,
                           !.mainResult = Merge(@, <<res>>)])

\* the allOf block: mainResult after it
AllOfMerge(validators, st) ==
    IF st.validated # Len(validators)
    THEN AddErrors(st.mainResult, <<AllOfMsg(st.validated)>>)
    ELSE st.mainResult

\* the not block with the wrapped schema's Result merged into mainResult
NotMergeWrapped(mainResult, res) ==
    IF IsValid(res) THEN AddErrors(Merge(mainResult, <<res>>), <<NotMsg>>)
    ELSE Merge(mainResult, <<res>>)

\* the not block: mainResult after it, res being the wrapped schema's Result
NotMerge(mainResult, res) ==
    IF IsValid(res) THEN AddErrors(mainResult, <<NotMsg>>) ELSE mainResult

\* schemaPropsValidator.Validate: the returned Result and the branches evaluated
PropsValidate(node) ==
    LET any  == AnyOfLoop(node.anyOf, 1, AnyOfStart)
        m1   == IF Len(node.anyOf) > 0 THEN AnyOfMerge(NewResult, any) ELSE NewResult
        one  == OneOfLoop(node.oneOf, 1, OneOfStart)
        m2   == IF Len(node.oneOf) > 0 THEN OneOfMerge(m1, one) ELSE m1
        all  == AllOfLoop(node.allOf, 1,
                          [validated |-> 0, evaluated |-> <<>>, mainResult |-> m2])
        m3   == IF Len(node.allOf) > 0 THEN AllOfMerge(node.allOf, all) ELSE m2
        m4   == IF node.not # <<>> THEN NotMerge(m3, SchemaValidate(node.not[1])) ELSE m3
    IN [res   |-> Inc(m4),
        calls |-> [anyOf |-> any.evaluated, oneOf |-> one.evaluated,
                   allOf |-> all.evaluated,
                   not   |-> IF node.not # <<>> THEN <<1>> ELSE <<>>]]

\* SchemaValidator.Validate on a branch: the primitive validators and the
\* composition validator of the branch run, and their Results are merged.
SchemaValidate(node) ==
    Merge(Merge(NewResult, <<[NewResult EXCEPT !.Errors = node.prim.Errors,
                                               !.MatchCount = node.prim.MatchCount]>>),
          <<PropsValidate(node).res>>)

----------------------------------------------------------------------------
(* Spec: one run of schemaPropsValidator.Validate *)

NoCalls == [anyOf |-> <<>>, oneOf |-> <<>>, allOf |-> <<>>, not |-> <<>>]

IdleResult == /\ r = <<NewResult, NewResult>>
              /\ last = [op |-> "none", target |-> 1, args |-> <<>>, before |-> <<>>]

IdleDoc == /\ doc = <<>>
           /\ opts = [ContinueOnErrors |-> FALSE]
           /\ stage = "idle"
           /\ errs = NewResult
           /\ warnings = <<>>
           /\ ran = <<>>

IdleWalk == /\ definitions = <<>>
            /\ walk = [st |-> "idle", order |-> <<>>, res |-> NewResult,
                       onError |-> "diagnostic"]

IdleDeps == /\ data = [kind |-> "nil", keys |-> {}]
            /\ dependencies = <<>>
            /\ runs = <<>>

IdlePool == /\ pools = <<>>
            /\ inflight = <<>>

IdleOps == /\ swagger = [hasPaths |-> FALSE, operations |-> {}]
           /\ report = [ids |-> <<>>, names |-> <<>>, params |-> <<>>]
IdleDefaults == defaults = <<>> /\ defaultsRes = <<>>
IdleFlags == specValidators = <<>>
IdleLate == IdleOps /\ IdleDefaults /\ IdleFlags
IdleMore == IdleWalk /\ IdleDeps /\ IdlePool /\ IdleLate

Init ==
    /\ schema = Leaf(PassPrim)
    /\ pc = "ready"
    /\ result = NewResult
    /\ calls = NoCalls
    /\ IdleResult
    /\ IdleDoc
    /\ IdleMore

\* The caller declares one more branch in the schema: the argument lists of
\* newSchemaPropsValidator, which builds one sub-validator per branch.
Compose ==
    /\ pc = "ready"
    /\ Size(schema) < MaxNodes
    /\ schema' \in Extensions(schema)
    /\ UNCHANGED <<pc, result, calls, resultVars, docVars, moreVars>>

Validate ==
    /\ pc = "ready"
    /\ LET v == PropsValidate(schema)
       IN /\ result' = v.res
          /\ calls' = v.calls
    /\ pc' = "done"
    /\ UNCHANGED <<schema, resultVars, docVars, moreVars>>

Next == Compose \/ Validate

Spec == Init /\ [][Next]_vars

----------------------------------------------------------------------------
(* SpecResult: calls on two Result values *)

ArgLists == SeqsUpTo(LeafMsgs, MaxArgs) \ {<<>>}

Call(op, target, args, before) ==
    [op |-> op, target |-> target, args |-> args, before |-> before]

InitResult ==
    /\ IdleResult
    /\ schema = Leaf(PassPrim)
    /\ pc = "idle"
    /\ result = NewResult
    /\ calls = NoCalls
    /\ IdleDoc
    /\ IdleMore

\* r[i].AddErrors(es...)
RAddErrors(i, es) ==
    /\ r' = [r EXCEPT ![i] = AddErrors(@, es)]
    /\ last' = Call("AddErrors", i, es, r[i].Errors)
    /\ UNCHANGED <<propsVars, docVars, moreVars>>

\* r[i].AddWarnings(ws...)
RAddWarnings(i, ws) ==
    /\ r' = [r EXCEPT ![i] = AddWarnings(@, ws)]
    /\ last' = Call("AddWarnings", i, ws, r[i].Errors)
    /\ UNCHANGED <<propsVars, docVars, moreVars>>

\* r[i].Merge(&r[j])
RMerge(i, j) ==
    /\ i # j
    /\ r[i].MatchCount + r[j].MatchCount <= MaxMatch
    /\ r' = [r EXCEPT ![i] = Merge(@, <<r[j]>>)]
    /\ last' = Call("Merge", i, <<>>, r[i].Errors)
    /\ UNCHANGED <<propsVars, docVars, moreVars>>

\* r[i].MergeAsWarnings(&r[j])
RMergeAsWarnings(i, j) ==
    /\ i # j
    /\ r[i].MatchCount + r[j].MatchCount <= MaxMatch
    /\ r' = [r EXCEPT ![i] = MergeAsWarnings(@, <<r[j]>>)]
    /\ last' = Call("MergeAsWarnings", i, <<>>, r[i].Errors)
    /\ UNCHANGED <<propsVars, docVars, moreVars>>

\* r[i].Inc()
RInc(i) ==
    /\ r[i].MatchCount < MaxMatch
    /\ r' = [r EXCEPT ![i] = Inc(@)]
    /\ last' = Call("Inc", i, <<>>, r[i].Errors)
    /\ UNCHANGED <<propsVars, docVars, moreVars>>

NextResult ==
    \/ \E i \in 1..2, es \in ArgLists : RAddErrors(i, es)
    \/ \E i \in 1..2, ws \in ArgLists : RAddWarnings(i, ws)
    \/ \E i, j \in 1..2 : RMerge(i, j)
    \/ \E i, j \in 1..2 : RMergeAsWarnings(i, j)
    \/ \E i \in 1..2 : RInc(i)

SpecResult == InitResult /\ [][NextResult]_vars

----------------------------------------------------------------------------
(* SpecDoc: SpecValidator.Validate, stage by stage *)

\* the checks of Validate, in the order of the calls it makes
StageOrder == <<"schema", "referencesValid", "duplicateOperationIDs",
                "duplicatePropertyNames", "parameters", "items",
                "requiredDefinitions", "defaults", "examples",
                "nonEmptyPathParamNames", "refNoSibling", "referenced">>

Stages == Range(StageOrder)

\* the checks followed by a test of ContinueOnErrors and errs.HasErrors()
Checkpoints == {"schema", "referencesValid", "requiredDefinitions"}

\* What a check can find in a document: nothing, an error, or a warning only.
Findings(name) ==
    CASE name \in {"parameters", "defaults", "examples", "nonEmptyPathParamNames"}
            -> {"ok", "error", "warning"}
      [] name = "referenced" -> {"ok", "warning"}
      [] name = "refNoSibling" -> {"ok"}
      [] OTHER -> {"ok", "error"}

\* A document: whether the data is a *loads.Document, whether its raw form
\* unmarshals, and what each check finds in it.
Docs ==
    {[isDocument |-> TRUE, unmarshals |-> TRUE, found |-> f] :
        f \in {g \in [Stages -> {"ok", "error", "warning"}] :
                 \A n \in Stages : g[n] \in Findings(n)}}
    \cup {[isDocument |-> d, unmarshals |-> FALSE, found |-> [n \in Stages |-> "ok"]] :
            d \in BOOLEAN}

InvalidDocumentMsg == Msg("spec validator can only validate spec.Document objects", 0)

UnmarshalMsg == Msg("json: cannot unmarshal", 0)

\* The Result of one check on the document (<<>> is a nil Result):
\* validateRefNoSibling returns nil, validateReferenced merges what it finds
\* as warnings.
StageResult(d, name) ==
    IF name = "refNoSibling" THEN <<>>
    ELSE <<[NewResult EXCEPT
              !.Errors = IF d.found[name] = "error" THEN <<Msg(name, 0)>> ELSE <<>>,
              !.Warnings = IF d.found[name] = "warning" THEN <<Msg(name, 0)>> ELSE <<>>]>>

\* Halts that stops on any error, whatever the option
HaltsOnAnyError(o, e) == HasErrors(e)

\* Halts that never stops
HaltsNever(o, e) == FALSE

\* if !s.Options.ContinueOnErrors && errs.HasErrors() { return }
Halts(o, e) == ~o.ContinueOnErrors /\ HasErrors(e)

IndexOf(name) == CHOOSE i \in 1..Len(StageOrder) : StageOrder[i] = name

InitDoc ==
    /\ doc \in Docs
    /\ opts \in {[ContinueOnErrors |-> c] : c \in BOOLEAN}
    /\ stage = "idle"
    /\ errs = NewResult
    /\ warnings = <<>>
    /\ ran = <<>>
    /\ IdleResult
    /\ schema = Leaf(PassPrim)
    /\ pc = "idle"
    /\ result = NewResult
    /\ calls = NoCalls
    /\ IdleMore

\* Validate up to the first check: the type switch on data and the
\* unmarshalling of the raw document. Both failures return at once, before
\* the deferred function is set up.
DocStart ==
    /\ stage = "idle"
    /\ IF ~doc.isDocument
       THEN /\ errs' = AddErrors(NewResult, <<InvalidDocumentMsg>>)
            /\ warnings' = <<>>
            /\ stage' = "returned"
       ELSE IF ~doc.unmarshals
       THEN /\ errs' = AddErrors(NewResult, <<UnmarshalMsg>>)
            /\ warnings' = <<NewResult>>
            /\ stage' = "returned"
       ELSE /\ errs' = NewResult
            /\ warnings' = <<NewResult>>
            /\ stage' = StageOrder[1]
    /\ UNCHANGED <<doc, opts, ran, resultVars, propsVars, moreVars>>

\* One check runs and its Result is merged into errs; after a checkpoint
\* Validate returns when Halts.
DocRunStage ==
    /\ stage \in Stages
    /\ errs' = Merge(errs, StageResult(doc, stage))
    /\ ran' = Append(ran, stage)
    /\ stage' = IF stage \in Checkpoints /\ Halts(opts, errs') THEN "deferred"
                ELSE IF IndexOf(stage) = Len(StageOrder) THEN "deferred"
                ELSE StageOrder[IndexOf(stage) + 1]
    /\ UNCHANGED <<doc, opts, warnings, resultVars, propsVars, moreVars>>

\* The deferred function without its second statement
DocDeferredNoCopy ==
    /\ stage = "deferred"
    /\ errs' = MergeAsWarnings(errs, warnings)
    /\ stage' = "returned"
    /\ UNCHANGED <<doc, opts, warnings, ran, resultVars, propsVars, moreVars>>

\* The deferred function, run on every return after the unmarshalling.
DocDeferred ==
    /\ stage = "deferred"
    /\ LET e == MergeAsWarnings(errs, warnings)
       IN /\ errs' = e
          /\ warnings' = <<AddErrors(warnings[1], e.Warnings)>>
    /\ stage' = "returned"
    /\ UNCHANGED <<doc, opts, ran, resultVars, propsVars, moreVars>>

NextDoc == DocStart \/ DocRunStage \/ DocDeferred

SpecDoc == InitDoc /\ [][NextDoc]_vars

----------------------------------------------------------------------------
(* Properties *)

\* the schema declares branches under this combinator only
OnlyKind(node, kind) ==
    /\ Branches(node, kind) # <<>>
    /\ \A k \in Kinds \ {kind} : Branches(node, k) = <<>>

\* the branches that validate the value
ValidBranches(bs) == {i \in 1..Len(bs) : SchemaValidate(bs[i]).Errors = <<>>}

Indexes(n) == [i \in 1..n |-> i]

Min(S) == CHOOSE x \in S : \A y \in S : x <= y

\* the failing branch of highest match count, the first of them on a tie
BestFailure(bs) ==
    LET failing == (1..Len(bs)) \ ValidBranches(bs)
        mc(i) == SchemaValidate(bs[i]).MatchCount
    IN bs[CHOOSE i \in failing :
            \A j \in failing : mc(j) < mc(i) \/ (mc(j) = mc(i) /\ i <= j)]

\* C1: for a schema whose only composition is a oneOf, the Result is valid
\* if and only if exactly one branch validates the value.
C1_OneOfExactlyOne ==
    (pc = "done" /\ OnlyKind(schema, "oneOf"))
        => ((result.Errors = <<>>) <=> (Cardinality(ValidBranches(schema.oneOf)) = 1))

\* C1 witness: two branches of a oneOf both validate and the Result is invalid.
C1_Witness ==
    /\ pc = "done"
    /\ OnlyKind(schema, "oneOf")
    /\ Cardinality(ValidBranches(schema.oneOf)) = 2
    /\ result.Errors # <<>>

\* C2: whatever the sequence of AddErrors and Merge calls, no error message
\* appears more than once in a Result.
C2_NoDuplicateErrors == \A i \in 1..2 : NoDup(r[i].Errors)

\* C2 witness: a Result was merged into one that already held one of its
\* messages, and the receiver holds that message once.
C2_Witness ==
    /\ last.op = "Merge"
    /\ \E m \in Range(last.before) \cap Range(r[3 - last.target].Errors) :
          Count(r[last.target].Errors, m) = 1

\* C3: after AddErrors(e1..en) returns, every message among e1..en is
\* present in Errors.
C3_AddErrorsAddsAll ==
    last.op = "AddErrors" => Range(last.args) \subseteq Range(r[last.target].Errors)

CheckpointsBefore(i) == {c \in Checkpoints : IndexOf(c) < i}

\* the document has an error for a check at or before the checkpoint
ErrorUpTo(d, c) == \E n \in Stages : IndexOf(n) <= IndexOf(c) /\ d.found[n] = "error"

C8_AnyOfResult ==
    (pc = "done" /\ OnlyKind(schema, "anyOf"))
        => LET valid == ValidBranches(schema.anyOf)
           IN IF valid = {}
              THEN /\ Count(result.Errors, AnyOfMsg) = 1
                   /\ Range(result.Errors) =
                        {AnyOfMsg} \cup Range(SchemaValidate(BestFailure(schema.anyOf)).Errors)
              ELSE /\ result.Errors = <<>>
                   /\ result.MatchCount =
                        SchemaValidate(schema.anyOf[Min(valid)]).MatchCount + 1

\* C9: every allOf branch is validated and its errors are in the Result; when
\* a branch failed the Result also holds the allOf error, once, with the
\* "None validated" marker exactly when no branch passed.
C9_AllOfResult ==
    (pc = "done" /\ OnlyKind(schema, "allOf"))
        => LET valid == ValidBranches(schema.allOf)
               n == Len(schema.allOf)
               merged == UNION {Range(SchemaValidate(schema.allOf[i]).Errors) : i \in 1..n}
           IN /\ calls.allOf = Indexes(n)
              /\ IF Cardinality(valid) = n
                 THEN result.Errors = <<>>
                 ELSE /\ Range(result.Errors) = merged \cup {AllOfMsg(Cardinality(valid))}
                      /\ Count(result.Errors, AllOfMsg(Cardinality(valid))) = 1

\* C10: the Result of a schema with a not is the Result of the same schema
\* without it, plus the not error when the wrapped schema validates: no
\* error, warning or match count of the wrapped schema is merged.
C10_NotMergesNothing ==
    (pc = "done" /\ schema.not # <<>>)
        => LET base == PropsValidate([schema EXCEPT !.not = <<>>]).res
               wrapped == SchemaValidate(schema.not[1])
           IN /\ result.MatchCount = base.MatchCount
              /\ result.Warnings = base.Warnings
              /\ result.Errors =
                    IF wrapped.Errors # <<>> \/ NotMsg \in Range(base.Errors)
                    THEN base.Errors
                    ELSE Append(base.Errors, NotMsg)

\* C10 witness: the wrapped schema validates, with a match count of its own,
\* and the Result holds the not error once and only the match count of the run.
C10_Witness ==
    /\ pc = "done"
    /\ OnlyKind(schema, "not")
    /\ SchemaValidate(schema.not[1]).Errors = <<>>
    /\ SchemaValidate(schema.not[1]).MatchCount > 0
    /\ result.Errors = <<NotMsg>>
    /\ result.MatchCount = 1

RECURSIVE SumMatch(_)
SumMatch(bs) ==
    IF bs = <<>> THEN 0 ELSE SchemaValidate(Head(bs)).MatchCount + SumMatch(Tail(bs))

\* the match counts a successful run merges from its branches: the first
\* valid anyOf branch, the valid oneOf branch and every allOf branch
MergedMatch(node) ==
    (IF node.anyOf = <<>> THEN 0
     ELSE SchemaValidate(node.anyOf[Min(ValidBranches(node.anyOf))]).MatchCount)
    + (IF node.oneOf = <<>> THEN 0
       ELSE SchemaValidate(node.oneOf[Min(ValidBranches(node.oneOf))]).MatchCount)
    + SumMatch(node.allOf)

\* C11: a successful run of the composition validator adds exactly one to the
\* match counts it merged from its branches.
C11_SuccessIncrementsOnce ==
    (pc = "done" /\ result.Errors = <<>>) => result.MatchCount = MergedMatch(schema) + 1

\* C11 witness: a successful run over an anyOf branch that is itself a
\* successful composition; the count ranks the nested run.
C11_Witness ==
    /\ pc = "done"
    /\ result.Errors = <<>>
    /\ Len(schema.anyOf) = 1
    /\ schema.anyOf[1].oneOf # <<>>
    /\ result.MatchCount = SchemaValidate(schema.anyOf[1]).MatchCount + 1
    /\ result.MatchCount > SchemaValidate(schema.anyOf[1].oneOf[1]).MatchCount + 1

----------------------------------------------------------------------------
(* SpecWalk: validateDuplicatePropertyNames over the named definitions *)

Defs == 1..MaxDefs

\* the key k of the definitions map, as validateDuplicatePropertyNames
\* passes it down
BareName(k) == <<"", k>>

\* the string of a $ref to definition k; it differs from the key
RefName(k) == <<"#/definitions/", k>>

\* sch.Ref.String() == ""
NoRef == <<>>

\* a $ref to a definition the document does not hold
Missing == RefName(0)

Targets == {RefName(k) : k \in Defs} \cup {Missing}

PropNames == {"id"}

SchemaOf(ref, allOf, props) == [Ref |-> ref, AllOf |-> allOf, Properties |-> props]

EmptySchema == SchemaOf(NoRef, <<>>, {})

\* the members a definition lists under allOf: a $ref, an inline schema
\* with properties, or an inline schema with an allOf of its own
LeafChildren ==
    {SchemaOf(t, <<>>, {}) : t \in Targets} \cup {SchemaOf(NoRef, <<>>, PropNames)}

Children ==
    LeafChildren \cup {SchemaOf(NoRef, <<SchemaOf(t, <<>>, {})>>, {}) : t \in Targets}

RECURSIVE EdgesAll(_)
\* the allOf members of a list, nested ones included
EdgesAll(cs) == IF cs = <<>> THEN 0 ELSE 1 + EdgesAll(Head(cs).AllOf) + EdgesAll(Tail(cs))

\* the size of a definition: its $ref, its properties and its allOf members
Edges(sch) ==
    (IF sch.Ref = NoRef THEN 0 ELSE 1) + Cardinality(sch.Properties)
    + EdgesAll(sch.AllOf)

RECURSIVE TotalEdges(_)
TotalEdges(ks) ==
    IF ks = {} THEN 0
    ELSE LET k == CHOOSE x \in ks : TRUE
         IN Edges(definitions[k]) + TotalEdges(ks \ {k})

PointerMsg(fromPath, ref) == Msg("could not resolve reference", <<fromPath, ref>>)

CircularMsg(k, ancs) == Msg("definition has circular ancestry", <<k, ancs>>)

DuplicateMsg(k, pns) == Msg("definition contains duplicate properties", <<k, pns>>)

AddPointerError(res, ref, fromPath) == AddErrors(res, <<PointerMsg(fromPath, ref)>>)

\* the loop "for schc.Ref.String() != """ of both walks: it follows a chain of
\* $refs until a schema without $ref, a $ref that does not resolve, or for
\* ever when the chain comes back to a $ref it followed
RECURSIVE FollowRefs(_, _)
FollowRefs(schc, seen) ==
    IF schc.Ref = NoRef THEN [st |-> "resolved", schc |-> schc, ref |-> NoRef]
    ELSE IF schc.Ref \notin {RefName(k) : k \in Defs}
    THEN [st |-> "error", schc |-> schc, ref |-> schc.Ref]
    ELSE IF schc.Ref \in seen THEN [st |-> "endless", schc |-> schc, ref |-> schc.Ref]
    ELSE FollowRefs(definitions[schc.Ref[2]], seen \cup {schc.Ref})

\* src/spec.go holds the two walks twice. When resolveRef fails, the walks at
\* lines 237-326 add a diagnostic to their Result and return; the walks at
\* lines 992-1066 call panic(err). The rest of the two pairs is the same.
ResolveErrorHandling == {"diagnostic", "panic"}

\* what a walk hands back: found is ancs or dups; fatal is "" when the call
\* returns, and names the failure when it cannot return
Walked(found, res, knowns) ==
    [found |-> found, res |-> res, knowns |-> knowns, fatal |-> ""]

Fatal(why, knowns) ==
    [found |-> <<>>, res |-> NewResult, knowns |-> knowns, fatal |-> why]

\* validateCircularAncestry and its loop over the allOf members. stack holds
\* the calls that have not returned, each as its arguments on entry: a call
\* that meets its own arguments in stack repeats itself without end, and
\* the goroutine's stack overflows.
RECURSIVE ValidateCircularAncestry(_, _, _, _), AncestryChildren(_, _, _, _, _, _)

ValidateCircularAncestry(nm, sch, knowns, stack) ==
    LET frame == <<nm, sch, knowns>>
        f == FollowRefs(sch, {})
        schn == IF sch.Ref = NoRef THEN nm ELSE sch.Ref
        knowns2 == IF schn # nm THEN knowns \cup {schn} ELSE knowns
    IN  IF frame \in stack THEN Fatal("stack overflow", knowns)
        ELSE IF sch.Ref = NoRef /\ sch.AllOf = <<>> THEN Walked(<<>>, NewResult, knowns)
        ELSE IF f.st = "endless" THEN Fatal("endless loop", knowns)
        ELSE IF f.st = "error"
        THEN IF walk.onError = "panic" THEN Fatal("panic", knowns)
             ELSE Walked(<<>>, AddPointerError(NewResult, f.ref, nm), knowns)
        ELSE IF schn # nm /\ schn \in knowns THEN Walked(<<schn>>, NewResult, knowns2)
        ELSE AncestryChildren(schn, f.schc.AllOf, <<>>, NewResult, knowns2,
                              stack \cup {frame})

AncestryChildren(schn, children, ancs, res, knowns, stack) ==
    IF children = <<>> THEN Walked(ancs, res, knowns)
    ELSE LET chld == Head(children)
         IN IF chld.Ref = NoRef /\ chld.AllOf = <<>>
            THEN AncestryChildren(schn, Tail(children), ancs, res, knowns, stack)
            ELSE LET w == ValidateCircularAncestry(schn, chld, knowns, stack)
                     res2 == Merge(res, <<w.res>>)
                     ancs2 == ancs \o w.found
                 IN IF w.fatal # "" THEN w
                    ELSE IF ancs2 # <<>> THEN Walked(ancs2, res2, w.knowns)
                    ELSE AncestryChildren(schn, Tail(children), ancs2, res2,
                                          w.knowns, stack)

\* the loop over schc.Properties: a name met before is a duplicate
RECURSIVE OwnProperties(_, _, _, _)
OwnProperties(schn, props, dups, knowns) ==
    IF props = {} THEN Walked(dups, NewResult, knowns)
    ELSE LET k == CHOOSE x \in props : TRUE
         IN IF k \in knowns
            THEN OwnProperties(schn, props \ {k},
                               Append(dups, [Name |-> k, Definition |-> schn]), knowns)
            ELSE OwnProperties(schn, props \ {k}, dups, knowns \cup {k})

\* validateSchemaPropertyNames and its loop over the allOf members
RECURSIVE ValidateSchemaPropertyNames(_, _, _, _), PropertyChildren(_, _, _, _, _, _)

ValidateSchemaPropertyNames(nm, sch, knowns, stack) ==
    LET frame == <<nm, sch, knowns>>
        f == FollowRefs(sch, {})
        schn == IF sch.Ref = NoRef THEN nm ELSE sch.Ref
    IN  IF frame \in stack THEN Fatal("stack overflow", knowns)
        ELSE IF f.st = "endless" THEN Fatal("endless loop", knowns)
        ELSE IF f.st = "error"
        THEN IF walk.onError = "panic" THEN Fatal("panic", knowns)
             ELSE Walked(<<>>, AddPointerError(NewResult, f.ref, nm), knowns)
        ELSE IF f.schc.AllOf # <<>>
        THEN PropertyChildren(schn, f.schc.AllOf, <<>>, NewResult, knowns,
                              stack \cup {frame})
        ELSE OwnProperties(schn, f.schc.Properties, <<>>, knowns)

PropertyChildren(schn, children, dups, res, knowns, stack) ==
    IF children = <<>> THEN Walked(dups, res, knowns)
    ELSE LET w == ValidateSchemaPropertyNames(schn, Head(children), knowns, stack)
             res2 == IF HasErrors(w.res) THEN Merge(res, <<w.res>>) ELSE res
         IN IF w.fatal # "" THEN w
            ELSE PropertyChildren(schn, Tail(children), dups \o w.found, res2,
                                  w.knowns, stack)

\* the names the duplicate-property message lists
PropertyPaths(dups) == [i \in 1..Len(dups) |-> <<dups[i].Definition, dups[i].Name>>]

\* the function returns at once after a circular-ancestry error
Returns(ancs) == Len(ancs) > 0

\* validateDuplicatePropertyNames: the loop over the definitions map, in the
\* order the range statement happens to visit it
RECURSIVE ValidateDuplicatePropertyNames(_, _)
ValidateDuplicatePropertyNames(order, res) ==
    IF order = <<>> THEN [fatal |-> "", res |-> res]
    ELSE LET k == Head(order)
             sch == definitions[k]
             a == ValidateCircularAncestry(BareName(k), sch, {RefName(k)}, {})
             res1 == Merge(res, <<a.res>>)
             p == ValidateSchemaPropertyNames(BareName(k), sch, {}, {})
             res2 == IF HasErrors(p.res) THEN Merge(res1, <<p.res>>) ELSE res1
             res3 == IF Len(p.found) > 0
                     THEN AddErrors(res2, <<DuplicateMsg(k, PropertyPaths(p.found))>>)
                     ELSE res2
         IN IF sch.AllOf = <<>> THEN ValidateDuplicatePropertyNames(Tail(order), res)
            ELSE IF a.fatal # "" THEN [fatal |-> a.fatal, res |-> res]
            ELSE IF Returns(a.found)
            THEN [fatal |-> "", res |-> AddErrors(res1, <<CircularMsg(k, a.found)>>)]
            ELSE IF p.fatal # "" THEN [fatal |-> p.fatal, res |-> res]
            ELSE ValidateDuplicatePropertyNames(Tail(order), res3)

Orders == {o \in [1..MaxDefs -> Defs] : \A i, j \in 1..MaxDefs : o[i] = o[j] => i = j}

InitWalk ==
    /\ definitions = [k \in Defs |-> EmptySchema]
    /\ walk \in {[st |-> "ready", order |-> <<>>, res |-> NewResult, onError |-> e] :
                   e \in ResolveErrorHandling}
    /\ IdleDeps
    /\ IdlePool
    /\ IdleLate
    /\ IdleResult
    /\ IdleDoc
    /\ schema = Leaf(PassPrim)
    /\ pc = "idle"
    /\ result = NewResult
    /\ calls = NoCalls

\* the document declares one more allOf member of a definition
DeclareAllOf(k, chld) ==
    /\ walk.st = "ready"
    /\ definitions[k].Ref = NoRef
    /\ TotalEdges(Defs) + EdgesAll(<<chld>>) <= MaxEdges
    /\ definitions' = [definitions EXCEPT ![k].AllOf = Append(@, chld)]
    /\ UNCHANGED <<walk, resultVars, propsVars, docVars, depsVars, poolVars, lateVars>>

\* the document declares a property of a definition
DeclareProperty(k, name) ==
    /\ walk.st = "ready"
    /\ definitions[k].Ref = NoRef
    /\ name \notin definitions[k].Properties
    /\ TotalEdges(Defs) < MaxEdges
    /\ definitions' = [definitions EXCEPT ![k].Properties = @ \cup {name}]
    /\ UNCHANGED <<walk, resultVars, propsVars, docVars, depsVars, poolVars, lateVars>>

\* the document makes a definition a $ref and nothing else
DeclareRef(k, ref) ==
    /\ walk.st = "ready"
    /\ definitions[k] = EmptySchema
    /\ TotalEdges(Defs) < MaxEdges
    /\ definitions' = [definitions EXCEPT ![k].Ref = ref]
    /\ UNCHANGED <<walk, resultVars, propsVars, docVars, depsVars, poolVars, lateVars>>

\* one call of validateDuplicatePropertyNames
WalkDefinitions(order) ==
    /\ walk.st = "ready"
    /\ LET w == ValidateDuplicatePropertyNames(order, NewResult)
       IN walk' = [walk EXCEPT !.st = IF w.fatal = "" THEN "returned" ELSE w.fatal,
                               !.order = order, !.res = w.res]
    /\ UNCHANGED <<definitions, resultVars, propsVars, docVars, depsVars, poolVars, lateVars>>

NextWalk ==
    \/ \E k \in Defs, chld \in Children : DeclareAllOf(k, chld)
    \/ \E k \in Defs, name \in PropNames : DeclareProperty(k, name)
    \/ \E k \in Defs, ref \in Targets : DeclareRef(k, ref)
    \/ \E order \in Orders : WalkDefinitions(order)

SpecWalk == InitWalk /\ [][NextWalk]_vars

----------------------------------------------------------------------------
(* Properties of the ancestry and duplicate-property walk *)

RECURSIVE RefsOf(_)
\* the $refs of a list of schemas, those of nested allOf members included
RefsOf(cs) ==
    IF cs = <<>> THEN {}
    ELSE (IF Head(cs).Ref = NoRef THEN {} ELSE {Head(cs).Ref})
         \cup RefsOf(Head(cs).AllOf) \cup RefsOf(Tail(cs))

\* the definitions that definition k refers to
Parents(k) == {j \in Defs : RefName(j) \in RefsOf(<<definitions[k]>>)}

RECURSIVE Ancestors(_, _)
Ancestors(ks, n) ==
    IF n = 0 THEN ks ELSE Ancestors(ks \cup UNION {Parents(j) : j \in ks}, n - 1)

\* definition k is on its own allOf/$ref chain
OwnAncestor(k) == k \in Ancestors(Parents(k), MaxDefs)

Circulars(res) ==
    {i \in 1..Len(res.Errors) : res.Errors[i].text = "definition has circular ancestry"}

Pointers(res) == {m \in Range(res.Errors) : m.text = "could not resolve reference"}

\* the check of definition k when it is the only one visited
Alone(k) == ValidateDuplicatePropertyNames(<<k>>, NewResult)

\* C12: when a definition with allOf members is on its own allOf/$ref chain,
\* the walk reports exactly one circular-ancestry error for the document.
C12_OneCircularAncestryError ==
    (walk.st \notin {"idle", "ready"}
     /\ \E k \in Defs : definitions[k].AllOf # <<>> /\ OwnAncestor(k))
        => walk.st = "returned" /\ Cardinality(Circulars(walk.res)) = 1

\* C13: the walk terminates on every definitions graph: it neither recurses
\* without end nor follows $refs without end.
C13_WalkTerminates == walk.st \notin {"stack overflow", "endless loop"}

\* C14: an error reported for one definition does not keep the errors of the
\* check of any other definition out of the Result of the walk.
C14_ErrorsNeverAbortSiblings ==
    walk.st = "returned" =>
        \A k \in Defs : Alone(k).fatal = "" =>
            Range(Alone(k).res.Errors) \subseteq Range(walk.res.Errors)

\* C18: when no definition is on its own chain, the walk returns, and the
\* Result holds, exactly once, every "could not resolve reference"
\* diagnostic that the check of a definition produces.
C18_UnresolvedRefIsOneDiagnostic ==
    (walk.st \notin {"idle", "ready"} /\ \A k \in Defs : ~OwnAncestor(k)) =>
        /\ walk.st = "returned"
        /\ Circulars(walk.res) = {} =>
              \A k \in Defs : \A m \in Pointers(Alone(k).res) :
                  Count(walk.res.Errors, m) = 1

----------------------------------------------------------------------------
----------------------------------------------------------------------------
(* SpecDeps: the dependencies block of schemaPropsValidator.Validate *)

Keys == 1..MaxKeys

\* the values handed to Validate: nil, a string, a map[string]string and a
\* map[string]interface{} (a JSON object)
Datas ==
    {[kind |-> "nil", keys |-> {}], [kind |-> "string", keys |-> {}]}
    \cup {[kind |-> k, keys |-> ks] :
            k \in {"map[string]string", "map[string]interface{}"}, ks \in SUBSET Keys}

\* a dependency: a schema (here: what its validator returns for the value)
\* or a list of keys that must be present
Dependency ==
    {[Schema |-> <<p>>, Property |-> <<>>] : p \in Prims}
    \cup {[Schema |-> <<>>, Property |-> <<k>>] : k \in Keys}

DependencyMsg(depKey) == Msg("has a dependency on", depKey)

\* reflect.TypeOf(data).Kind(): TypeOf(nil) is the nil Type, and a method
\* call on it is a nil dereference
KindOf(d) ==
    CASE d.kind = "nil" -> "panic"
      [] d.kind = "string" -> "String"
      [] OTHER -> "Map"

\* the loop over dep.Property
RECURSIVE PropertyDependencies(_, _, _)
PropertyDependencies(mainResult, val, property) ==
    IF property = <<>> THEN mainResult
    ELSE PropertyDependencies(
             IF Head(property) \in val THEN mainResult
             ELSE AddErrors(mainResult, <<DependencyMsg(Head(property))>>),
             val, Tail(property))

\* the loop "for key := range val", in the order the range statement
\* happens to visit the map
RECURSIVE DependenciesLoop(_, _, _)
DependenciesLoop(mainResult, val, order) ==
    IF order = <<>> THEN mainResult
    ELSE LET key == Head(order)
             dep == dependencies[key]
         IN IF key \notin DOMAIN dependencies
            THEN DependenciesLoop(mainResult, val, Tail(order))
            ELSE IF dep.Schema # <<>>
            THEN DependenciesLoop(
                     Merge(mainResult, <<SchemaValidate(Leaf(dep.Schema[1]))>>),
                     val, Tail(order))
            ELSE DependenciesLoop(PropertyDependencies(mainResult, val, dep.Property),
                                  val, Tail(order))

\* Validate of a schema that has dependencies only: the dependencies block
\* and the final Inc
DependenciesValidate(d, order) ==
    IF DOMAIN dependencies = {} THEN [st |-> "returned", res |-> Inc(NewResult)]
    ELSE IF KindOf(d) = "panic" THEN [st |-> "panic", res |-> NewResult]
    ELSE IF KindOf(d) # "Map" THEN [st |-> "returned", res |-> Inc(NewResult)]
    ELSE IF d.kind # "map[string]interface{}" THEN [st |-> "panic", res |-> NewResult]
    ELSE [st |-> "returned", res |-> Inc(DependenciesLoop(NewResult, d.keys, order))]

\* the orders in which a range statement can visit the keys of a map
KeyOrders(ks) ==
    {o \in [1..Cardinality(ks) -> ks] : \A i, j \in 1..Cardinality(ks) : o[i] = o[j] => i = j}

InitDeps ==
    /\ data \in Datas
    /\ dependencies = <<>>
    /\ runs = <<>>
    /\ IdleWalk
    /\ IdlePool
    /\ IdleLate
    /\ IdleResult
    /\ IdleDoc
    /\ schema = Leaf(PassPrim)
    /\ pc = "idle"
    /\ result = NewResult
    /\ calls = NoCalls

\* the schema declares a dependency of one more key
DeclareDependency(key, dep) ==
    /\ runs = <<>>
    /\ key \notin DOMAIN dependencies
    /\ dependencies' = [k \in DOMAIN dependencies \cup {key} |->
                           IF k = key THEN dep ELSE dependencies[k]]
    /\ UNCHANGED <<data, runs, resultVars, propsVars, docVars, walkVars, poolVars, lateVars>>

\* one call of Validate on the value, with a fresh Result
DepsValidate(order) ==
    /\ Len(runs) < MaxRuns
    /\ runs' = Append(runs, DependenciesValidate(data, order))
    /\ UNCHANGED <<data, dependencies, resultVars, propsVars, docVars, walkVars, poolVars, lateVars>>

NextDeps ==
    \/ \E key \in Keys, dep \in Dependency : DeclareDependency(key, dep)
    \/ \E order \in KeyOrders(data.keys) : DepsValidate(order)

SpecDeps == InitDeps /\ [][NextDeps]_vars

\* C17: Validate never panics, whatever the value: nil, or not a JSON object.
C17_NeverPanics == \A i \in 1..Len(runs) : runs[i].st # "panic"

\* C19: two Validate calls on the same schema and value return the same
\* errors in the same order, whatever the order in which the keys of the
\* value are visited.
C19_Deterministic ==
    Len(runs) >= 2 => runs[1].st = runs[2].st /\ runs[1].res.Errors = runs[2].res.Errors

----------------------------------------------------------------------------
(* SpecPool: concurrent validation calls over the pools of validators and
   of Results. A call borrows its validator, which borrows its child
   validator; on nil data the call exits early; otherwise the child
   validates into a borrowed Result, which is merged into the Result of the
   call; the call returns the verdict of its Result. *)

Callers == 1..MaxCalls

PooledValidators == {<<"validator", i>> : i \in 1..MaxObjects}

PooledResults == {<<"result", i>> : i \in 1..MaxObjects}

Pooled == PooledValidators \cup PooledResults

\* what a call validates: whether the value is nil, and whether the value
\* satisfies the schema
Documents == {[isNil |-> n, valid |-> v] : n, v \in BOOLEAN}

\* the fields of a pooled object: the document a validator was set up for,
\* the verdict a Result holds
BlankFields == [doc |-> [isNil |-> TRUE, valid |-> TRUE], ok |-> TRUE]

NoCall == [pc |-> "idle", doc |-> BlankFields.doc, root |-> <<>>, child |-> <<>>,
           childResult |-> <<>>, result |-> <<>>, verdict |-> TRUE, again |-> FALSE]

\* the objects a call has borrowed and not redeemed
Held(c) ==
    Range(inflight[c].root) \cup Range(inflight[c].child)
    \cup Range(inflight[c].childResult) \cup Range(inflight[c].result)

AllHeld == UNION {Held(c) : c \in Callers}

\* Borrow hands out every object, borrowed or not
CanBorrowAny(kind) == kind

\* Borrow hands out an object of the pool, or a new one when the pool is
\* empty: never an object that some call has borrowed and not redeemed
CanBorrow(kind) == kind \ AllHeld

\* Borrow: the object leaves the pool and its fields are set
Borrow(p, o, fields) ==
    [p EXCEPT !.redeemed = @ \ {o}, !.fields[o] = fields]

\* Redeem: the objects go back to their pool. Borrow sets every field
\* before the object is used again, so that what a redeemed object still
\* holds is never read: the model blanks it.
Redeem(p, os) ==
    [p EXCEPT !.redeemed = @ \cup os,
              !.fields = [o \in Pooled |-> IF o \in os THEN BlankFields ELSE @[o]]]

\* on an early exit the validator relinquishes itself only
EarlyExitRedeemsSelf(c) == Range(inflight[c].root)

\* on an early exit the validator relinquishes its children and itself
EarlyExitRedeems(c) == Range(inflight[c].child) \cup Range(inflight[c].root)

\* the verdict of a call that runs alone
VerdictAlone(d) == d.isNil \/ d.valid

InitPool ==
    /\ pools = [redeemed |-> {}, fields |-> [o \in Pooled |-> BlankFields]]
    /\ inflight = [c \in Callers |-> NoCall]
    /\ IdleWalk
    /\ IdleDeps
    /\ IdleLate
    /\ IdleResult
    /\ IdleDoc
    /\ schema = Leaf(PassPrim)
    /\ pc = "idle"
    /\ result = NewResult
    /\ calls = NoCalls

notPool == <<resultVars, propsVars, docVars, walkVars, depsVars, lateVars>>

\* a call starts: it borrows its validator and sets it up for its document
PoolStart(c, d) ==
    /\ inflight[c].pc \in {"idle", "returned", "panicked"}
    /\ \E o \in CanBorrow(PooledValidators) :
          /\ pools' = Borrow(pools, o, [BlankFields EXCEPT !.doc = d])
          /\ inflight' = [inflight EXCEPT ![c] =
                             [NoCall EXCEPT !.pc = "started", !.doc = d, !.root = <<o>>]]
    /\ UNCHANGED notPool

\* the validator borrows its child validator and sets it up from its own
\* fields
PoolBuild(c) ==
    /\ inflight[c].pc = "started"
    /\ \E o \in CanBorrow(PooledValidators) :
          /\ pools' = Borrow(pools, o, pools.fields[inflight[c].root[1]])
          /\ inflight' = [inflight EXCEPT ![c].pc = "built", ![c].child = <<o>>]
    /\ UNCHANGED notPool

\* nil data: Validate exits early, with a valid Result, and runs no child
PoolExitEarly(c) ==
    /\ inflight[c].pc = "built"
    /\ pools.fields[inflight[c].root[1]].doc.isNil
    /\ pools' = Redeem(pools, EarlyExitRedeems(c))
    /\ inflight' = [inflight EXCEPT
                       ![c].pc = "returned", ![c].verdict = TRUE,
                       ![c].child = IF Range(@) \subseteq EarlyExitRedeems(c) THEN <<>> ELSE @,
                       ![c].root = IF Range(@) \subseteq EarlyExitRedeems(c) THEN <<>> ELSE @]
    /\ UNCHANGED notPool

\* the child validates into a borrowed Result and is redeemed
PoolRunChild(c) ==
    /\ inflight[c].pc = "built"
    /\ ~pools.fields[inflight[c].root[1]].doc.isNil
    /\ \E o \in CanBorrow(PooledResults) :
          /\ pools' = Redeem(
                 Borrow(pools, o,
                        [BlankFields EXCEPT
                            !.ok = pools.fields[inflight[c].child[1]].doc.valid]),
                 Range(inflight[c].child))
          /\ inflight' = [inflight EXCEPT ![c].pc = "childDone", ![c].child = <<>>,
                                          ![c].childResult = <<o>>]
    /\ UNCHANGED notPool

\* the Result of the child is merged into the borrowed Result of the call,
\* and redeemed on the merge
PoolMerge(c) ==
    /\ inflight[c].pc = "childDone"
    /\ \E o \in CanBorrow(PooledResults) :
          /\ pools' = Redeem(
                 Borrow(pools, o,
                        [BlankFields EXCEPT
                            !.ok = pools.fields[inflight[c].childResult[1]].ok]),
                 Range(inflight[c].childResult))
          /\ inflight' = [inflight EXCEPT ![c].pc = "merged", ![c].childResult = <<>>,
                                          ![c].result = <<o>>]
    /\ UNCHANGED notPool

\* the call returns the verdict of its Result; the Result and the validator
\* are redeemed
PoolReturn(c) ==
    /\ inflight[c].pc = "merged"
    /\ pools' = Redeem(pools, Range(inflight[c].result) \cup Range(inflight[c].root))
    /\ inflight' = [inflight EXCEPT
                       ![c].pc = "returned", ![c].result = <<>>, ![c].root = <<>>,
                       ![c].verdict = pools.fields[inflight[c].result[1]].ok]
    /\ UNCHANGED notPool

\* Validate called again on the validator of the last call, running on
\* whatever the pool made of it
PoolValidateAgainRuns(c) ==
    /\ inflight[c].pc = "returned"
    /\ \E o \in CanBorrow(PooledValidators) :
          /\ pools' = Borrow(pools, o, BlankFields)
          /\ inflight' = [inflight EXCEPT ![c] =
                             [NoCall EXCEPT !.pc = "started", !.root = <<o>>, !.again = TRUE]]
    /\ UNCHANGED notPool

\* Validate called again on the validator of the last call of c, which went
\* back to its pool when that call returned: the call panics, before it
\* borrows anything.
PoolValidateAgain(c) ==
    /\ inflight[c].pc = "returned"
    /\ inflight' = [inflight EXCEPT ![c].pc = "panicked", ![c].again = TRUE]
    /\ UNCHANGED <<pools, notPool>>

NextPool ==
    \/ \E c \in Callers, d \in Documents : PoolStart(c, d)
    \/ \E c \in Callers : PoolBuild(c)
    \/ \E c \in Callers : PoolExitEarly(c)
    \/ \E c \in Callers : PoolRunChild(c)
    \/ \E c \in Callers : PoolMerge(c)
    \/ \E c \in Callers : PoolReturn(c)
    \/ \E c \in Callers : PoolValidateAgain(c)

SpecPool == InitPool /\ [][NextPool]_vars

----------------------------------------------------------------------------
\* the match counts a run merges from its branches, whatever its outcome:
\* from anyOf the first valid branch or else the best failure, from oneOf the
\* only valid branch or, when none is valid, the best failure, and every
\* allOf branch
MergedMatchAnyRun(node) ==
    (IF node.anyOf = <<>> THEN 0
     ELSE IF ValidBranches(node.anyOf) # {}
     THEN SchemaValidate(node.anyOf[Min(ValidBranches(node.anyOf))]).MatchCount
     ELSE SchemaValidate(BestFailure(node.anyOf)).MatchCount)
    + (IF node.oneOf = <<>> THEN 0
       ELSE IF Cardinality(ValidBranches(node.oneOf)) = 1
       THEN SchemaValidate(node.oneOf[Min(ValidBranches(node.oneOf))]).MatchCount
       ELSE IF ValidBranches(node.oneOf) = {}
       THEN SchemaValidate(BestFailure(node.oneOf)).MatchCount
       ELSE 0)
    + SumMatch(node.allOf)

\* C29 as stated: a run that reports an error adds no increment of its own
\* to the match count.
C29_FailingRunAddsNothing ==
    (pc = "done" /\ result.Errors # <<>>) => result.MatchCount = MergedMatchAnyRun(schema)

\* C29 amended: every run, the failing one as the successful one, adds
\* exactly one to the match counts it merged from its branches.
C29_EveryRunIncrements ==
    pc = "done" => result.MatchCount = MergedMatchAnyRun(schema) + 1

\* C29 witness: a failing anyOf whose only branch is a failing composition:
\* the nested run and the outer run each added one.
C29_Witness ==
    /\ pc = "done"
    /\ result.Errors # <<>>
    /\ Len(schema.anyOf) = 1
    /\ schema.anyOf[1].not # <<>>
    /\ SchemaValidate(schema.anyOf[1]).Errors # <<>>
    /\ result.MatchCount = SchemaValidate(schema.anyOf[1]).MatchCount + 1
    /\ result.MatchCount >= schema.anyOf[1].prim.MatchCount + 2

\* C30: when the number n of valid oneOf branches is not one, the Result
\* holds exactly once the oneOf error that names n ("Found none valid" for
\* zero, "Found n valid alternatives" otherwise), and every other oneOf
\* error it holds comes from a branch.
C30_OneOfErrorNamesCount ==
    (pc = "done" /\ schema.oneOf # <<>>
     /\ Cardinality(ValidBranches(schema.oneOf)) # 1) =>
        LET n == Cardinality(ValidBranches(schema.oneOf))
            named == IF n = 0
                     THEN Msg("must validate one and only one schema (oneOf). Found none valid", 0)
                     ELSE Msg("must validate one and only one schema (oneOf). Found %d valid alternatives", n)
            nested == UNION {Range(SchemaValidate(b).Errors) :
                               b \in Range(schema.oneOf) \cup Range(schema.anyOf)
                                     \cup Range(schema.allOf)}
        IN /\ Count(result.Errors, named) = 1
           /\ \A i \in 1..Len(result.Errors) :
                 result.Errors[i].text \in
                    {"must validate one and only one schema (oneOf). Found none valid",
                     "must validate one and only one schema (oneOf). Found %d valid alternatives"} =>
                    result.Errors[i] = named \/ result.Errors[i] \in nested

\* C30 witness: a oneOf with two valid branches, reported as such, and
\* (in another run) a oneOf with none.
C30_Witness ==
    /\ pc = "done"
    /\ Len(schema.oneOf) = 2
    /\ Cardinality(ValidBranches(schema.oneOf)) = 2
    /\ result.Errors =
          <<Msg("must validate one and only one schema (oneOf). Found %d valid alternatives", 2)>>

----------------------------------------------------------------------------
(* SpecOps: the checks of the operations of a document *)

Methods == {"get", "post"}

OperationIDs == {"", "listPets"}

ParamNames == {"x", "y"}

\* "{"+r+"}"
Brace(nm) == "{" \o nm \o "}"

\* A path template is what strings.Split(path, "/") gives after the leading
\* slash: its segments, each one a sequence of tokens (a literal, a {name}
\* placeholder, or the empty braces). The templates are listed in the order
\* of strings.Compare on their strings:
\*   /a   /a/   /a{x}   /a{y}   /{}
PathTemplates ==
    << << <<"a">> >>,
       << <<"a">>, <<>> >>,
       << <<"a", Brace("x")>> >>,
       << <<"a", Brace("y")>> >>,
       << <<"{}">> >> >>

\* strings.Join
RECURSIVE Join(_, _)
Join(strs, sep) ==
    IF strs = <<>> THEN ""
    ELSE IF Len(strs) = 1 THEN strs[1]
    ELSE strs[1] \o sep \o Join(Tail(strs), sep)

\* the path template as the string the document holds
PathString(path) ==
    "/" \o Join([i \in 1..Len(path) |-> Join(path[i], "")], "/")

\* strings.Compare(p, q) < 0
Before(p, q) ==
    \E i, j \in 1..Len(PathTemplates) :
        PathTemplates[i] = p /\ PathTemplates[j] = q /\ i < j

\* the regular expression {[^{}]+?} matching a token
rexParsePathParam(t) == \E nm \in ParamNames : t = Brace(nm)

\* stripParametersInPath leaving the path as it is
stripNothing(path) == PathString(path)

stripParametersInPath(path) ==
    LET filled(segment) == segment # <<>>
        literal(t) == ~rexParsePathParam(t)
        segments == SelectSeq(path, filled)
    IN Join([i \in 1..Len(segments) |-> Join(SelectSeq(segments[i], literal), "")], "/")

extractPathParams(path) ==
    LET found[i \in 0..Len(path)] ==
            IF i = 0 THEN <<>> ELSE found[i - 1] \o SelectSeq(path[i], rexParsePathParam)
    IN found[Len(path)]

\* the regular expression .*[{}\s]+.* matching the stripped path of a template
rexGarbledPathSegment(path) ==
    \E i \in 1..Len(path) : \E j \in 1..Len(path[i]) : path[i][j] = "{}"

Operations ==
    [method : Methods, path : Range(PathTemplates), ID : OperationIDs,
     params : {<<>>} \cup {<<nm>> : nm \in ParamNames}]

\* validateDuplicateOperationIDs reporting the identifiers declared once too
validateDuplicateOperationIDsOnce(ids, order) ==
    AddErrors(NewResult, [i \in 1..Len(order) |->
                            Msg("%q is defined %d times", <<order[i], Count(ids, order[i])>>)])

\* known[v]++ for every non-empty identifier, then one error for every
\* identifier counted more than once, in the order the map hands them out
validateDuplicateOperationIDs(ids, order) ==
    LET known(k) == Count(ids, k)
        res[i \in 0..Len(order)] ==
            IF i = 0 THEN NewResult
            ELSE IF known(order[i]) > 1
            THEN AddErrors(res[i - 1],
                           <<Msg("%q is defined %d times", <<order[i], known(order[i])>>)>>)
            ELSE res[i - 1]
    IN res[Len(order)]

validatePathParamPresence(path, fromPath, fromOperation) ==
    LET unmatchedL(l) == \A i \in 1..Len(fromOperation) : l # Brace(fromOperation[i])
        unmatchedP(q) == \A i \in 1..Len(fromPath) : Brace(q) # fromPath[i]
        ls == SelectSeq(fromPath, unmatchedL)
        appended == [i \in 1..Len(ls) |->
                        Msg("path param %q has no parameter definition", <<ls[i]>>)]
        res[i \in 0..Len(fromOperation)] ==
            IF i = 0 THEN [NewResult EXCEPT !.Errors = appended]
            ELSE IF unmatchedP(fromOperation[i])
            THEN AddErrors(res[i - 1],
                           <<Msg("path param %q is not present in path %q",
                                 <<fromOperation[i], PathString(path)>>)>>)
            ELSE res[i - 1]
    IN res[Len(fromOperation)]

\* The loops of validateParameters over the operations, by method and then by
\* path, in the order the two maps hand them out: order lists the operations,
\* those of one method next to each other. methodPaths is made anew for
\* every method.
validateParameters(order) ==
    LET step[i \in 0..Len(order)] ==
            IF i = 0 THEN [res |-> NewResult, methodPaths |-> <<>>]
            ELSE LET op == order[i]
                     before == IF i > 1 /\ order[i - 1].method = op.method
                               THEN step[i - 1].methodPaths ELSE <<>>
                     pathToAdd == stripParametersInPath(op.path)
                     r1 == IF rexGarbledPathSegment(op.path)
                           THEN AddWarnings(step[i - 1].res,
                                    <<Msg("path stripped from path parameters %s contains {,} or white space. This is probably no what you want.",
                                          <<pathToAdd>>)>>)
                           ELSE step[i - 1].res
                     found == \E k \in 1..Len(before) : before[k].stripped = pathToAdd
                     other == (CHOOSE k \in 1..Len(before) : before[k].stripped = pathToAdd)
                     r2 == IF ~found THEN r1
                           ELSE IF Before(op.path, before[other].path)
                           THEN AddErrors(r1, <<Msg("path %s overlaps with %s",
                                    <<PathString(op.path), PathString(before[other].path)>>)>>)
                           ELSE AddErrors(r1, <<Msg("path %s overlaps with %s",
                                    <<PathString(before[other].path), PathString(op.path)>>)>>)
                 IN [res |-> Merge(r2, <<validatePathParamPresence(op.path,
                                            extractPathParams(op.path), op.params)>>),
                     methodPaths |-> IF found THEN before
                                     ELSE Append(before, [stripped |-> pathToAdd, path |-> op.path])]
    IN step[Len(order)].res

\* validateNonEmptyPathParamNames taking the empty Paths for an error
validateNonEmptyPathParamNamesStrict(sw, order) ==
    IF sw.operations = {}
    THEN AddErrors(NewResult, <<Msg("spec has no valid path defined", <<>>)>>)
    ELSE NewResult

\* Paths == nil is an error, Paths.Paths == nil a warning; otherwise every
\* path holding the empty braces is an error.
validateNonEmptyPathParamNames(sw, order) ==
    IF ~sw.hasPaths
    THEN AddErrors(NewResult, <<Msg("spec has no valid path defined", <<>>)>>)
    ELSE IF sw.operations = {}
    THEN AddWarnings(NewResult, <<Msg("spec has no valid path defined", <<>>)>>)
    ELSE LET res[i \in 0..Len(order)] ==
                 IF i = 0 THEN NewResult
                 ELSE IF rexGarbledPathSegment(order[i].path)
                 THEN AddErrors(res[i - 1], <<Msg("%q contains an empty path parameter",
                                                  <<PathString(order[i].path)>>)>>)
                 ELSE res[i - 1]
         IN res[Len(order)]

notOps == <<resultVars, propsVars, docVars, walkVars, depsVars, poolVars,
            defaultsVars, specValidators>>

InitOps ==
    /\ swagger \in [hasPaths : BOOLEAN, operations : {{}}]
    /\ report = [ids |-> <<>>, names |-> <<>>, params |-> <<>>]
    /\ IdleDefaults /\ IdleFlags
    /\ IdleWalk /\ IdleDeps /\ IdlePool
    /\ IdleResult /\ IdleDoc
    /\ schema = Leaf(PassPrim)
    /\ pc = "idle"
    /\ result = NewResult
    /\ calls = NoCalls

\* the document declares one more operation, under a method and a path that
\* hold none yet
DeclareOperation(op) ==
    /\ swagger.hasPaths
    /\ report.ids = <<>>
    /\ Cardinality(swagger.operations) < MaxOps
    /\ \A o \in swagger.operations : o.method # op.method \/ o.path # op.path
    /\ swagger' = [swagger EXCEPT !.operations = @ \cup {op}]
    /\ UNCHANGED <<report, notOps>>

\* the orders in which the two maps of analyzer.Operations() may hand out the
\* operations: the operations of one method come next to each other
OperationOrders(ops) ==
    {o \in KeyOrders(ops) :
        \A i, j, k \in 1..Len(o) :
            (i < j /\ j < k /\ o[i].method = o[k].method) => o[j].method = o[i].method}

OpsValidateDuplicateOperationIDs(order) ==
    /\ report.ids = <<>>
    /\ LET ops == CHOOSE o \in KeyOrders(swagger.operations) : TRUE
           ids == [i \in 1..Len(ops) |-> ops[i].ID]
       IN report' = [report EXCEPT !.ids = <<validateDuplicateOperationIDs(ids, order)>>]
    /\ UNCHANGED <<swagger, notOps>>

OpsValidateParameters(order) ==
    /\ report.ids # <<>>
    /\ report.params = <<>>
    /\ report' = [report EXCEPT !.params = <<validateParameters(order)>>]
    /\ UNCHANGED <<swagger, notOps>>

OpsValidateNonEmptyPathParamNames(order) ==
    /\ report.params # <<>>
    /\ report.names = <<>>
    /\ report' = [report EXCEPT !.names = <<validateNonEmptyPathParamNames(swagger, order)>>]
    /\ UNCHANGED <<swagger, notOps>>

NextOps ==
    \/ \E op \in Operations : DeclareOperation(op)
    \/ \E order \in KeyOrders({op.ID : op \in swagger.operations} \ {""}) :
          OpsValidateDuplicateOperationIDs(order)
    \/ \E order \in OperationOrders(swagger.operations) : OpsValidateParameters(order)
    \/ \E order \in KeyOrders(swagger.operations) : OpsValidateNonEmptyPathParamNames(order)

SpecOps == InitOps /\ [][NextOps]_vars

----------------------------------------------------------------------------
(* Claims on the operations *)

\* C21: every non-empty identifier declared on N >= 2 operations has exactly
\* one error, "<id> is defined N times"; an identifier declared once, and the
\* empty identifier, have none.
C21_OneErrorPerDuplicateID ==
    report.ids # <<>> =>
        \A id \in OperationIDs :
            LET N == Cardinality({op \in swagger.operations : op.ID = id})
                es == report.ids[1].Errors
                about == {i \in 1..Len(es) : es[i].n[1] = id}
            IN IF id # "" /\ N >= 2
               THEN /\ Cardinality(about) = 1
                    /\ \A i \in about : es[i] = Msg("%q is defined %d times", <<id, N>>)
               ELSE about = {}

\* C21 witness: an identifier declared on three operations, and (in another
\* run) on two next to an operation without identifier.
C21_Witness ==
    /\ report.ids # <<>>
    /\ Cardinality({op \in swagger.operations : op.ID = "listPets"}) = 2
    /\ \E op \in swagger.operations : op.ID = ""
    /\ report.ids[1].Errors = <<Msg("%q is defined %d times", <<"listPets", 2>>)>>

\* the templates that share the method and the stripped path of op; the
\* stripped paths of the templates are spelled out: "{}" for /{} and "a" for
\* /a, /a/, /a{x} and /a{y}
Overlapping(op) ==
    LET stripped(path) == IF path = << <<"{}">> >> THEN "{}" ELSE "a"
    IN {o \in swagger.operations :
          /\ o.method = op.method
          /\ o.path # op.path
          /\ stripped(o.path) = stripped(op.path)}

\* the error naming the two templates, the lesser first
OverlapMsg(p, q) ==
    IF Before(p, q)
    THEN Msg("path %s overlaps with %s", <<PathString(p), PathString(q)>>)
    ELSE Msg("path %s overlaps with %s", <<PathString(q), PathString(p)>>)

C23_PlaceholdersMatchParameters ==
    report.params # <<>> =>
        LET es == report.params[1].Errors
            NoDef(l) == Msg("path param %q has no parameter definition", <<l>>)
            NotIn(q, path) == Msg("path param %q is not present in path %q",
                                  <<q, PathString(path)>>)
            Lone(op) == {l \in Range(extractPathParams(op.path)) :
                            \A q \in Range(op.params) : l # Brace(q)}
            Stray(op) == {q \in Range(op.params) :
                            \A l \in Range(extractPathParams(op.path)) : l # Brace(q)}
        IN /\ \A op \in swagger.operations :
                /\ \A l \in Lone(op) : NoDef(l) \in Range(es)
                /\ \A q \in Stray(op) : NotIn(q, op.path) \in Range(es)
                /\ \A i, j \in 1..Len(es) :
                      (es[i] \in {NoDef(l) : l \in Lone(op)}
                       /\ es[j] \in {NotIn(q, op.path) : q \in Stray(op)}) => i < j
           /\ \A i \in 1..Len(es) :
                /\ es[i].text = "path param %q has no parameter definition" =>
                      \E op \in swagger.operations : es[i].n[1] \in Lone(op)
                /\ es[i].text = "path param %q is not present in path %q" =>
                      \E op \in swagger.operations :
                          es[i].n[1] \in Stray(op) /\ es[i].n[2] = PathString(op.path)

----------------------------------------------------------------------------
(* SpecDefaults: the default values of a document against their schemas *)

\* what the validator of a parameter or of a schema reports on a default
\* value: nothing, or the details of the violation, which name the field by
\* its name and its location and not by its operation
DefaultDetails(name, in) ==
    {<<>>,
     <<Msg("%s.default in %s must be of type %s", <<name, in>>)>>,
     <<Msg("%s.default in %s must be of type %s", <<name, in>>),
       Msg("%s.default in %s should be one of %v", <<name, in>>)>>}

\* A declared default: of a parameter of some operation, with an inline
\* definition or with a schema, or of a definition; red is the Result of the
\* validation of the default value.
Defaults ==
    UNION {[of : {"parameter"}, name : {"limit"}, in : {loc},
            red : {[NewResult EXCEPT !.Errors = es] : es \in DefaultDetails("limit", loc)}]
              : loc \in {"query", "body"}}
    \cup [of : {"definition"}, name : {"definitions.pet"}, in : {"body"},
          red : {[NewResult EXCEPT !.Errors = es]
                    : es \in DefaultDetails("definitions.pet", "body")}]

WrapperMsg(name, in) ==
    Msg("default value for %s in %s does not validate its schema", <<name, in>>)

\* The defaults of the parameters, in the order the operations and their
\* parameters are visited, and then those of the definitions. The defaults
\* of the parameters get the wrapper error, those of the definitions are
\* merged as they are.
validateDefaultValueValidAgainstSchema(ds) ==
    LET isParam(d) == d.of = "parameter"
        isDef(d) == d.of = "definition"
        ps == SelectSeq(ds, isParam)
        defs == SelectSeq(ds, isDef)
        params[i \in 0..Len(ps)] ==
            IF i = 0 THEN NewResult
            ELSE IF ps[i].red.Errors # <<>> \/ ps[i].red.Warnings # <<>>
            THEN Merge(AddErrors(params[i - 1], <<WrapperMsg(ps[i].name, ps[i].in)>>),
                       <<ps[i].red>>)
            ELSE params[i - 1]
        res[i \in 0..Len(defs)] ==
            IF i = 0 THEN params[Len(ps)] ELSE Merge(res[i - 1], <<defs[i].red>>)
    IN res[Len(defs)]

notDefaults == <<resultVars, propsVars, docVars, walkVars, depsVars, poolVars,
                 opsVars, specValidators>>

InitDefaults ==
    /\ defaults = <<>>
    /\ defaultsRes = <<>>
    /\ IdleOps /\ IdleFlags
    /\ IdleWalk /\ IdleDeps /\ IdlePool
    /\ IdleResult /\ IdleDoc
    /\ schema = Leaf(PassPrim)
    /\ pc = "idle"
    /\ result = NewResult
    /\ calls = NoCalls

\* the document declares one more default value
DeclareDefault(d) ==
    /\ defaultsRes = <<>>
    /\ Len(defaults) < MaxDefaults
    /\ defaults' = Append(defaults, d)
    /\ UNCHANGED <<defaultsRes, notDefaults>>

DefaultsValidate ==
    /\ defaultsRes = <<>>
    /\ defaultsRes' = <<Merge(NewResult, <<validateDefaultValueValidAgainstSchema(defaults)>>)>>
    /\ UNCHANGED <<defaults, notDefaults>>

NextDefaults ==
    \/ \E d \in Defaults : DeclareDefault(d)
    \/ DefaultsValidate

SpecDefaults == InitDefaults /\ [][NextDefaults]_vars

\* C24: a declared default that violates its schema has exactly one wrapper
\* error "default value for ... does not validate its schema" for its field,
\* and every detail of the violation; when every declared default satisfies
\* its schema there is no error.
C24_OneWrapperPerBadDefault ==
    defaultsRes # <<>> =>
        LET es == defaultsRes[1].Errors
            bad == {i \in 1..Len(defaults) : defaults[i].red.Errors # <<>>}
        IN /\ \A i \in bad :
                /\ Count(es, WrapperMsg(defaults[i].name, defaults[i].in)) = 1
                /\ Range(defaults[i].red.Errors) \subseteq Range(es)
           /\ bad = {} => es = <<>>

----------------------------------------------------------------------------
(* SpecFlag: the validators of one process and their continue-on-errors *)

Validators == {"a", "b"}

\* The source holds the option in two ways: as s.Options.ContinueOnErrors,
\* set by the method SetContinueOnErrors of the validator, and as the
\* package variable continueOnErrors, set by the function SetContinueOnErrors
\* and read by Validate at its checkpoints.
OptionHolders == {"option", "global"}

\* the value a checkpoint of validator v reads
ContinueOnErrors(sv, v) ==
    IF sv.holder = "global" THEN sv.continueOnErrors ELSE sv.of[v].Options

notFlag == <<resultVars, propsVars, docVars, walkVars, depsVars, poolVars,
             opsVars, defaultsVars>>

\* continueOnErrors starts as true; the Options of a new validator are the
\* defaults of the package, whatever they are. wanted is the value the owner
\* of the validator set last, at is the next check of its call (0 before the
\* call), halted tells that the call returned at a checkpoint.
InitFlag ==
    /\ specValidators \in
          {[holder |-> h, continueOnErrors |-> TRUE,
            of |-> [v \in Validators |->
                      [Options |-> IF h = "global" THEN TRUE ELSE d,
                       wanted |-> IF h = "global" THEN TRUE ELSE d,
                       at |-> 0, halted |-> FALSE]]] :
              h \in OptionHolders, d \in BOOLEAN}
    /\ IdleOps /\ IdleDefaults
    /\ IdleWalk /\ IdleDeps /\ IdlePool
    /\ IdleResult /\ IdleDoc
    /\ schema = Leaf(PassPrim)
    /\ pc = "idle"
    /\ result = NewResult
    /\ calls = NoCalls

\* The owner of validator v sets the option for it, before its call: with
\* the method of v, or with the function of the package.
SetContinueOnErrors(v, c) ==
    /\ specValidators.of[v].at = 0
    /\ specValidators' =
          IF specValidators.holder = "global"
          THEN [specValidators EXCEPT !.continueOnErrors = c, !.of[v].wanted = c]
          ELSE [specValidators EXCEPT !.of[v].Options = c, !.of[v].wanted = c]
    /\ UNCHANGED notFlag

\* Validator v starts its call on a document whose first check finds an error
FlagStart(v) ==
    /\ specValidators.of[v].at = 0
    /\ specValidators' = [specValidators EXCEPT !.of[v].at = 1]
    /\ UNCHANGED notFlag

\* The call of validator v runs its next check; errs.HasErrors() holds from
\* the first check on, so that the call returns at a checkpoint when the
\* option it reads there is off.
FlagRunStage(v) ==
    LET sv == specValidators
        at == sv.of[v].at
        checkpoints == IF sv.holder = "global"
                       THEN {"schema", "referencesValid"} ELSE Checkpoints
    IN /\ at \in 1..Len(StageOrder)
       /\ specValidators' =
             IF StageOrder[at] \in checkpoints /\ ~ContinueOnErrors(sv, v)
             THEN [sv EXCEPT !.of[v].at = Len(StageOrder) + 1, !.of[v].halted = TRUE]
             ELSE [sv EXCEPT !.of[v].at = at + 1]
       /\ UNCHANGED notFlag

NextFlag ==
    \/ \E v \in Validators, c \in BOOLEAN : SetContinueOnErrors(v, c)
    \/ \E v \in Validators : FlagStart(v)
    \/ \E v \in Validators : FlagRunStage(v)

SpecFlag == InitFlag /\ [][NextFlag]_vars

\* C26: the checks a call runs follow the option set for its own validator,
\* whatever is set for the other validators in the meantime: the call
\* returns at a checkpoint only if its validator has the option off, and
\* goes past the first checkpoint only if its validator has it on.
C26_OwnSettingDecides ==
    \A v \in Validators :
        LET me == specValidators.of[v]
        IN /\ me.halted => ~me.wanted
           /\ (me.at > 2 /\ ~me.halted) => me.wanted

----------------------------------------------------------------------------
----------------------------------------------------------------------------
\* the errors of the call that runs every check of the document
FullRun(d) ==
    LET all[i \in 0..Len(StageOrder)] ==
            IF i = 0 THEN NewResult
            ELSE Merge(all[i - 1], StageResult(d, StageOrder[i]))
    IN IF ~d.isDocument THEN <<InvalidDocumentMsg>>
       ELSE IF ~d.unmarshals THEN <<UnmarshalMsg>>
       ELSE all[Len(StageOrder)].Errors

====
